---- MODULE Spec2Model ----
(***************************************************************************)
(* extractFiles (public/extractFiles.js): clones a value, replacing every  *)
(* extractable file by null and recording the object paths of each file in *)
(* a Map.  The recursion of extractFiles~recurse is modelled step by step   *)
(* with an explicit call stack; objects live in a heap of identities, so    *)
(* aliasing, cycles and in-place mutation are all observable.              *)
(*                                                                         *)
(* Strings are sequences of one-character strings, so that concatenation,  *)
(* the "." separator and a split on "." are computed, not assumed.         *)
(***************************************************************************)
EXTENDS Integers, Sequences, FiniteSets

\* Size of an input: number of containers plus number of their entries.
MaxSize == 5

\* Frames the engine's call stack holds before it raises a RangeError; any
\* legitimate traversal of an input of MaxSize needs fewer.
StackLimit == MaxSize + 2

VARIABLES value, path, pred, heap, files, stack, mode, arg, ret, clone

vars == <<value, path, pred, heap, files, stack, mode, arg, ret, clone>>

----------------------------------------------------------------------------
(* Values.  A value is a tag and an identity: primitives carry identity 0,  *)
(* class instances (File, Date) carry the identity of the instance, and a   *)
(* "ref" is the identity of an array, plain object or FileList in the heap. *)

Prim(t) == [t |-> t, id |-> 0]
Null == Prim("null")
Hole == Prim("empty")
FileVal(i) == [t |-> "File", id |-> i]
Ref(n) == [t |-> "ref", id |-> n]

PrimTags == {"undefined", "null", "false", "true", "emptyString", "string",
             "zero", "one", "function"}
FileIds == {0, 1}

EmptyNode(kind) == [kind |-> kind, keys |-> <<>>, vals |-> <<>>]

Str(c) == <<c>>
Dot == "."
DigitChars == <<"0", "1", "2", "3", "4", "5", "6", "7", "8", "9">>

\* Number.prototype.toString of an array index, as `${index}` computes it.
RECURSIVE ToString(_)
ToString(n) ==
  IF n < 10 THEN <<DigitChars[n + 1]>>
  ELSE ToString(n \div 10) \o <<DigitChars[(n % 10) + 1]>>

----------------------------------------------------------------------------
(* The tests of extractFiles~recurse.                                       *)

IsRef(v) == v.t = "ref"
KindOf(h, v) == IF IsRef(v) THEN h[v.id].kind ELSE v.t

\* The isExtractableFile parameter: a predicate on the value's constructor.
IsExtractableFile(v) == KindOf(heap, v) \in pred

IsFileList(v) == IsRef(v) /\ heap[v.id].kind = "FileList"
IsArray(v) == IsRef(v) /\ heap[v.id].kind = "Array"
IsPlainObject(v) == IsRef(v) /\ heap[v.id].kind = "Object"

\* new Set()
NewSet == [def |-> TRUE, has |-> {}]
\* The third argument of recurse when the caller passes none.
Undefined == [def |-> FALSE, has |-> {}]

SetAddItem(recursed, v, item) ==
  [def |-> TRUE, has |-> recursed.has \cup (IF IsRef(item) THEN {item.id} ELSE {})]

SetCopy(recursed, v, item) == [def |-> TRUE, has |-> recursed.has]

\* new Set(recursed).add(value)
SetAdd(recursed, v, item) == [def |-> TRUE, has |-> recursed.has \cup {v.id}]

SetHas(recursed, v) == v.id \in recursed.has

ChildPathNoDot(p, key) == p \o key

\* const prefix = path ? `${path}.` : '';  `${prefix}${key}`
ChildPath(p, key) == (IF p # <<>> THEN p \o <<Dot>> ELSE <<>>) \o key

----------------------------------------------------------------------------
(* The files Map: entries in insertion order, keyed by identity.           *)

KeyIndex(fs, file) == {k \in 1..Len(fs) : fs[k].key = file}

AddFileByContent(fs, file, p) ==
  LET hit == {k \in 1..Len(fs) : fs[k].key.t = file.t} IN
  IF hit # {}
  THEN LET k == CHOOSE k \in hit : TRUE IN
       [fs EXCEPT ![k].paths = Append(@, p)]
  ELSE Append(fs, [key |-> file, paths |-> <<p>>])

AddFileOverwrite(fs, file, p) ==
  LET hit == KeyIndex(fs, file) IN
  IF hit # {}
  THEN LET k == CHOOSE k \in hit : TRUE IN [fs EXCEPT ![k].paths = <<p>>]
  ELSE Append(fs, [key |-> file, paths |-> <<p>>])

\* extractFiles~addFile
AddFile(fs, file, p) ==
  LET hit == KeyIndex(fs, file) IN
  IF hit # {}
  THEN LET k == CHOOSE k \in hit : TRUE IN
       [fs EXCEPT ![k].paths = Append(@, p)]
  ELSE Append(fs, [key |-> file, paths |-> <<p>>])

----------------------------------------------------------------------------
(* Heap writes of the clone under construction.                            *)

\* Array.prototype.map: the result array, created with the source's length.
NewArray(n) == [kind |-> "Array", keys |-> <<>>, vals |-> [j \in 1..n |-> Hole]]

SetProp(node, key, v) ==
  LET hit == {k \in 1..Len(node.keys) : node.keys[k] = key} IN
  IF hit # {}
  THEN LET k == CHOOSE k \in hit : TRUE IN [node EXCEPT !.vals[k] = v]
  ELSE [node EXCEPT !.keys = Append(@, key), !.vals = Append(@, v)]

StorePropertyInPlace(h, frame, key, v) ==
  [h EXCEPT ![frame.value.id] = SetProp(@, key, v)]

\* clone[key] = recurse(...)
StoreProperty(h, frame, key, v) ==
  [h EXCEPT ![frame.clone] = SetProp(@, key, v)]

\* The map callback's result, stored at its index of the result array.
StoreElement(h, frame, v) ==
  [h EXCEPT ![frame.clone].vals[frame.i + 1] = v]

PassThroughNull(v) == Null

\* return value;
PassThrough(v) == v

----------------------------------------------------------------------------
(* Inputs.  An input is a heap of at most MaxSize containers and entries,  *)
(* a root value, a path prefix and a predicate.  Containers are numbered   *)
(* in the order a depth-first walk from the root first meets them, and so  *)
(* are the File instances, so that each shape is drawn once.               *)

Kinds == {"Array", "Object", "FileList"}

KeysPlain == <<Str("a"), Str("b"), Str("c"), Str("d"), Str("e")>>
KeysEmpty == <<<<>>, Str("a"), Str("b"), Str("c"), Str("d")>>
KeysDotted == <<<<"a", Dot, "b">>, Str("a"), Str("b"), Str("c"), Str("d")>>

\* (predicate, key names of the plain objects, path prefix)
Scenarios ==
  {<<{"File"}, KeysPlain, <<>>>>,
   <<{}, KeysPlain, <<>>>>,
   <<{"File", "Object"}, KeysPlain, <<>>>>,
   <<{"File"}, KeysEmpty, <<>>>>,
   <<{"File"}, KeysDotted, <<>>>>,
   <<{"File"}, KeysPlain, <<"p">>>>}

RECURSIVE SumTo(_, _)
SumTo(f, n) == IF n = 0 THEN 0 ELSE f[n] + SumTo(f, n - 1)

\* Values in first-visit order of a depth-first walk (work: values to visit).
RECURSIVE Discover(_, _, _)
Discover(h, work, seen) ==
  IF work = <<>> THEN seen
  ELSE LET v == Head(work) IN
       IF \E k \in 1..Len(seen) : seen[k] = v
       THEN Discover(h, Tail(work), seen)
       ELSE IF IsRef(v)
            THEN Discover(h, h[v.id].vals \o Tail(work), Append(seen, v))
            ELSE Discover(h, Tail(work), Append(seen, v))

IsFileVal(v) == v.t = "File"

Canonical(h, n) ==
  LET seen == Discover(h, <<Ref(1)>>, <<>>)
      refs == SelectSeq(seen, IsRef)
      fls == SelectSeq(seen, IsFileVal)
  IN /\ refs = [k \in 1..n |-> Ref(k)]
     /\ fls = [k \in 1..Len(fls) |-> FileVal(k - 1)]

FieldVals(n) == {Null} \cup {FileVal(i) : i \in FileIds} \cup {Ref(k) : k \in 1..n}

BuildHeap(n, kinds, lens, flat, names) ==
  [c \in 1..MaxSize |->
     IF c > n THEN EmptyNode("Array")
     ELSE [kind |-> kinds[c],
           keys |-> IF kinds[c] = "Object" THEN SubSeq(names, 1, lens[c]) ELSE <<>>,
           vals |-> SubSeq(flat, SumTo(lens, c - 1) + 1, SumTo(lens, c))]]

ScalarRoots ==
  {Prim(t) : t \in PrimTags} \cup {FileVal(0), [t |-> "Date", id |-> 0]}

NoArg == [value |-> Null, path |-> <<>>, recursed |-> Undefined]

InitContainer ==
  \E n \in 1..MaxSize :
    \E lens \in [1..n -> 0..(MaxSize - n)] :
      /\ SumTo(lens, n) <= MaxSize - n
      /\ SumTo(lens, n) >= n - 1
      /\ \E flat \in [1..SumTo(lens, n) -> FieldVals(n)] :
           \E sc \in Scenarios :
             /\ \A c \in 1..n : lens[c] <= Len(sc[2])
             /\ \E kinds \in [1..n -> Kinds] :
                  LET h == BuildHeap(n, kinds, lens, flat, sc[2]) IN
                  /\ Canonical(h, n)
                  /\ heap = h
                  /\ value = Ref(1)
                  /\ pred = sc[1]
                  /\ path = sc[3]

InitScalar ==
  /\ heap = [c \in 1..MaxSize |-> EmptyNode("Array")]
  /\ value \in ScalarRoots
  /\ \E sc \in Scenarios : pred = sc[1] /\ path = sc[3]

Init ==
  /\ InitContainer \/ InitScalar
  /\ files = <<>>
  /\ stack = <<>>
  /\ mode = "start"
  /\ arg = NoArg
  /\ ret = Null
  /\ clone = Null

----------------------------------------------------------------------------
(* extractFiles: the entry and the final return.                           *)

Input == <<value, path, pred>>

\* const files = new Map(); ... recurse(value, path, new Set())
ExtractFiles ==
  /\ mode = "start"
  /\ files' = <<>>
  /\ arg' = [value |-> value, path |-> path, recursed |-> NewSet]
  /\ mode' = "call"
  /\ UNCHANGED <<Input, heap, stack, ret, clone>>

\* return { clone: recurse(...), files }
Finish ==
  /\ mode = "ret"
  /\ stack = <<>>
  /\ clone' = ret
  /\ mode' = "done"
  /\ UNCHANGED <<Input, heap, files, stack, arg, ret>>

----------------------------------------------------------------------------
(* extractFiles~recurse, one action per branch of its body.                *)

Top == stack[Len(stack)]
Push(v, p, r, c) == Append(stack, [value |-> v, path |-> p, recursed |-> r, i |-> 0, clone |-> c])
Pop == SubSeq(stack, 1, Len(stack) - 1)
Calling == mode = "call" /\ Len(stack) < StackLimit

\* The engine has no stack left for the call.
RecurseRangeError ==
  /\ mode = "call"
  /\ Len(stack) >= StackLimit
  /\ mode' = "threw"
  /\ UNCHANGED <<Input, heap, files, stack, arg, ret, clone>>

\* if (isExtractableFile(value)) { addFile(value, path); return null; }
RecurseFile ==
  /\ Calling
  /\ IsExtractableFile(arg.value)
  /\ files' = AddFile(files, arg.value, arg.path)
  /\ ret' = Null
  /\ mode' = "ret"
  /\ UNCHANGED <<Input, heap, stack, arg, clone>>

\* value instanceof FileList: Array.prototype.map.call(value, ...)
RecurseFileList ==
  /\ Calling
  /\ ~IsExtractableFile(arg.value)
  /\ IsFileList(arg.value)
  /\ heap' = Append(heap, NewArray(Len(heap[arg.value.id].vals)))
  /\ stack' = Push(arg.value, arg.path, arg.recursed, Len(heap) + 1)
  /\ mode' = "iter"
  /\ UNCHANGED <<Input, files, arg, ret, clone>>

\* Array.isArray(value) && !recursed.has(value), recursed being undefined
\* (or the same test of the plain-object branch).
RecurseTypeError ==
  /\ Calling
  /\ ~IsExtractableFile(arg.value)
  /\ ~IsFileList(arg.value)
  /\ IsArray(arg.value) \/ IsPlainObject(arg.value)
  /\ ~arg.recursed.def
  /\ mode' = "threw"
  /\ UNCHANGED <<Input, heap, files, stack, arg, ret, clone>>

\* Array.isArray(value) && !recursed.has(value): value.map(...)
RecurseArray ==
  /\ Calling
  /\ ~IsExtractableFile(arg.value)
  /\ ~IsFileList(arg.value)
  /\ IsArray(arg.value)
  /\ arg.recursed.def
  /\ ~SetHas(arg.recursed, arg.value)
  /\ heap' = Append(heap, NewArray(Len(heap[arg.value.id].vals)))
  /\ stack' = Push(arg.value, arg.path, arg.recursed, Len(heap) + 1)
  /\ mode' = "iter"
  /\ UNCHANGED <<Input, files, arg, ret, clone>>

\* value && value.constructor === Object && !recursed.has(value): clone = {}
RecurseObject ==
  /\ Calling
  /\ ~IsExtractableFile(arg.value)
  /\ ~IsFileList(arg.value)
  /\ IsPlainObject(arg.value)
  /\ arg.recursed.def
  /\ ~SetHas(arg.recursed, arg.value)
  /\ heap' = Append(heap, EmptyNode("Object"))
  /\ stack' = Push(arg.value, arg.path, arg.recursed, Len(heap) + 1)
  /\ mode' = "iter"
  /\ UNCHANGED <<Input, files, arg, ret, clone>>

\* return value;
RecursePassThrough ==
  /\ Calling
  /\ ~IsExtractableFile(arg.value)
  /\ ~IsFileList(arg.value)
  /\ \/ ~(IsArray(arg.value) \/ IsPlainObject(arg.value))
     \/ arg.recursed.def /\ SetHas(arg.recursed, arg.value)
  /\ ret' = PassThrough(arg.value)
  /\ mode' = "ret"
  /\ UNCHANGED <<Input, heap, files, stack, arg, clone>>

----------------------------------------------------------------------------
(* The loops of a container under traversal: Array.prototype.map for an    *)
(* array or FileList, for...in for a plain object.                         *)

Source == heap[Top.value.id]
Iterating == mode = "iter" /\ stack # <<>>

\* The callback of FileList's map: recurse(item, `${prefix}${index}`)
FileListCallback ==
  /\ Iterating
  /\ Source.kind = "FileList"
  /\ Top.i < Len(Source.vals)
  /\ arg' = [value |-> Source.vals[Top.i + 1],
             path |-> ChildPath(Top.path, ToString(Top.i)),
             recursed |-> Undefined]
  /\ mode' = "call"
  /\ UNCHANGED <<Input, heap, files, stack, ret, clone>>

\* The callback of value.map:
\* recurse(item, `${prefix}${index}`, new Set(recursed).add(value))
ArrayCallback ==
  /\ Iterating
  /\ Source.kind = "Array"
  /\ Top.i < Len(Source.vals)
  /\ arg' = [value |-> Source.vals[Top.i + 1],
             path |-> ChildPath(Top.path, ToString(Top.i)),
             recursed |-> SetAdd(Top.recursed, Top.value, Source.vals[Top.i + 1])]
  /\ mode' = "call"
  /\ UNCHANGED <<Input, heap, files, stack, ret, clone>>

\* for (const key in value)
\*   recurse(value[key], `${prefix}${key}`, new Set(recursed).add(value))
ObjectKey ==
  /\ Iterating
  /\ Source.kind = "Object"
  /\ Top.i < Len(Source.keys)
  /\ arg' = [value |-> Source.vals[Top.i + 1],
             path |-> ChildPath(Top.path, Source.keys[Top.i + 1]),
             recursed |-> SetAdd(Top.recursed, Top.value, Source.vals[Top.i + 1])]
  /\ mode' = "call"
  /\ UNCHANGED <<Input, heap, files, stack, ret, clone>>

\* map returns the result array.
MapReturn ==
  /\ Iterating
  /\ Source.kind \in {"Array", "FileList"}
  /\ Top.i >= Len(Source.vals)
  /\ ret' = Ref(Top.clone)
  /\ stack' = Pop
  /\ mode' = "ret"
  /\ UNCHANGED <<Input, heap, files, arg, clone>>

\* return clone;
ObjectReturn ==
  /\ Iterating
  /\ Source.kind = "Object"
  /\ Top.i >= Len(Source.keys)
  /\ ret' = Ref(Top.clone)
  /\ stack' = Pop
  /\ mode' = "ret"
  /\ UNCHANGED <<Input, heap, files, arg, clone>>

\* The value a callback returned becomes the element at its index.
MapStore ==
  /\ mode = "ret"
  /\ stack # <<>>
  /\ Source.kind \in {"Array", "FileList"}
  /\ heap' = StoreElement(heap, Top, ret)
  /\ stack' = [stack EXCEPT ![Len(stack)].i = @ + 1]
  /\ mode' = "iter"
  /\ UNCHANGED <<Input, files, arg, ret, clone>>

\* clone[key] = recurse(...)
ObjectStore ==
  /\ mode = "ret"
  /\ stack # <<>>
  /\ Source.kind = "Object"
  /\ heap' = StoreProperty(heap, Top, Source.keys[Top.i + 1], ret)
  /\ stack' = [stack EXCEPT ![Len(stack)].i = @ + 1]
  /\ mode' = "iter"
  /\ UNCHANGED <<Input, files, arg, ret, clone>>

Next ==
  \/ ExtractFiles
  \/ RecurseRangeError
  \/ RecurseFile
  \/ RecurseFileList
  \/ RecurseTypeError
  \/ RecurseArray
  \/ RecurseObject
  \/ RecursePassThrough
  \/ FileListCallback
  \/ ArrayCallback
  \/ ObjectKey
  \/ MapReturn
  \/ ObjectReturn
  \/ MapStore
  \/ ObjectStore
  \/ Finish

Spec == Init /\ [][Next]_vars

\* The call is synchronous: once started it runs until it returns or throws.
FairSpec == Spec /\ WF_vars(Next)

----------------------------------------------------------------------------
(* Vocabulary of the properties: the input and the result as graphs.       *)

InputIds == 1..MaxSize
Done == mode = "done"
Threw == mode = "threw"
IsContainer(v) == IsFileList(v) \/ IsArray(v) \/ IsPlainObject(v)

RefIdsOf(h, ids) ==
  {h[c].vals[k].id : <<c, k>> \in
     {ck \in ids \X (1..MaxSize) : ck[2] <= Len(h[ck[1]].vals) /\ IsRef(h[ck[1]].vals[ck[2]])}}

\* The identities reachable from ids by following indices and keys.
RECURSIVE ReachIds(_, _)
ReachIds(h, ids) ==
  LET nxt == ids \cup RefIdsOf(h, ids) IN
  IF nxt = ids THEN ids ELSE ReachIds(h, nxt)

RootIds(v) == IF IsRef(v) THEN {v.id} ELSE {}

\* Every value reachable from v, v included.
ValuesFrom(h, v) ==
  {v} \cup {h[c].vals[k] : <<c, k>> \in
     {ck \in ReachIds(h, RootIds(v)) \X (1..MaxSize) : ck[2] <= Len(h[ck[1]].vals)}}

InputContainers == ReachIds(heap, RootIds(value))
NoFileListInput == \A c \in InputContainers : heap[c].kind # "FileList"
Acyclic == \A c \in InputContainers : c \notin ReachIds(heap, RefIdsOf(heap, {c}))

\* The key of entry k (from 1) of a container: its index, or its key.
KeyAt(node, k) == IF node.kind = "Object" THEN node.keys[k] ELSE ToString(k - 1)

\* The leaves below v with the path of each occurrence; anc holds the arrays
\* and plain objects between the root and v.
RECURSIVE LeafPaths(_, _, _)
LeafPaths(v, p, anc) ==
  IF IsExtractableFile(v) THEN {<<v, p>>}
  ELSE IF IsContainer(v) /\ (IsFileList(v) \/ v.id \notin anc)
       THEN UNION {LeafPaths(heap[v.id].vals[k],
                             ChildPath(p, KeyAt(heap[v.id], k)),
                             anc \cup {v.id}) : k \in 1..Len(heap[v.id].vals)}
       ELSE {}

\* The leaves below v with each route (a sequence of entry positions) to them.
RECURSIVE LeafRoutes(_)
LeafRoutes(v) ==
  IF IsExtractableFile(v) THEN {<<v, <<>>>>}
  ELSE IF IsContainer(v)
       THEN UNION {{<<lr[1], <<k>> \o lr[2]>> : lr \in LeafRoutes(heap[v.id].vals[k])}
                   : k \in 1..Len(heap[v.id].vals)}
       ELSE {}

\* The occurrences of leaves below v, in depth-first pre-order.
RECURSIVE Occurrences(_, _, _, _)
Occurrences(v, p, anc, from) ==
  IF IsExtractableFile(v) THEN <<[key |-> v, path |-> p]>>
  ELSE IF IsContainer(v) /\ (IsFileList(v) \/ v.id \notin anc)
       THEN IF from > Len(heap[v.id].vals) THEN <<>>
            ELSE Occurrences(heap[v.id].vals[from],
                             ChildPath(p, KeyAt(heap[v.id], from)),
                             anc \cup {v.id}, 1)
                 \o Occurrences(v, p, anc, from + 1)
       ELSE <<>>

\* c is what v is cloned to: null for a leaf, a fresh container of the same
\* shape for a container that is not its own ancestor, v itself otherwise.
RECURSIVE CloneOK(_, _, _)
CloneOK(v, c, anc) ==
  IF IsExtractableFile(v) THEN c = Null
  ELSE IF IsContainer(v) /\ (IsFileList(v) \/ v.id \notin anc)
       THEN /\ IsRef(c)
            /\ c.id \notin InputIds
            /\ heap[c.id].kind = (IF IsPlainObject(v) THEN "Object" ELSE "Array")
            /\ heap[c.id].keys = heap[v.id].keys
            /\ Len(heap[c.id].vals) = Len(heap[v.id].vals)
            /\ \A k \in 1..Len(heap[v.id].vals) :
                 CloneOK(heap[v.id].vals[k], heap[c.id].vals[k], anc \cup {v.id})
       ELSE c = v

PathsOf(file) == {files[k].paths[j] : <<k, j>> \in
  {kj \in (1..Len(files)) \X (1..(2 * MaxSize)) :
     files[kj[1]].key = file /\ kj[2] <= Len(files[kj[1]].paths)}}

\* String.prototype.split(".")
RECURSIVE Split(_)
Split(s) ==
  IF \A k \in 1..Len(s) : s[k] # Dot THEN <<s>>
  ELSE LET k == CHOOSE k \in 1..Len(s) : s[k] = Dot /\ \A j \in 1..(k - 1) : s[j] # Dot
       IN <<SubSeq(s, 1, k - 1)>> \o Split(SubSeq(s, k + 1, Len(s)))

\* v[seg]
Property(v, seg) ==
  IF ~IsRef(v) THEN Prim("undefined")
  ELSE LET node == heap[v.id]
           hit == {k \in 1..Len(node.vals) : KeyAt(node, k) = seg}
       IN IF hit = {} THEN Prim("undefined")
          ELSE node.vals[CHOOSE k \in hit : TRUE]

RECURSIVE Walk(_, _)
Walk(v, segs) == IF segs = <<>> THEN v ELSE Walk(Property(v, Head(segs)), Tail(segs))

\* The value a path names in the input; the empty path names the root.
Resolve(p) == IF p = <<>> THEN value ELSE Walk(value, Split(p))

AllPathsResolve ==
  \A k \in 1..Len(files) : \A j \in 1..Len(files[k].paths) :
    Resolve(files[k].paths[j]) = files[k].key

PlainKeys ==
  \A c \in InputIds : \A k \in 1..Len(heap[c].keys) :
    heap[c].keys[k] # <<>> /\ \A j \in 1..Len(heap[c].keys[k]) : heap[c].keys[k][j] # Dot

----------------------------------------------------------------------------
(* The claims.                                                             *)

\* C1: when the call returns, every array or plain object that is not one of
\* its own ancestors on the route from the root has been cloned to a fresh
\* container under every route that leads to it, only an ancestor is passed
\* through as it is, and every leaf has the path of each of its routes.
C1_SharedContainersCloned ==
  Done =>
    /\ CloneOK(value, clone, {})
    /\ \A lp \in LeafPaths(value, path, {}) : lp[2] \in PathsOf(lp[1])

\* {a: arr, b: arr} with arr = [file]: two clones of arr, paths a.0 and b.0.
C1_Witness ==
  /\ Done
  /\ files = <<[key |-> FileVal(0),
               paths |-> <<<<"a", Dot, "0">>, <<"b", Dot, "0">>>>]>>
  /\ heap[1].vals = <<Ref(2), Ref(2)>>
  /\ heap[clone.id].vals[1] # heap[clone.id].vals[2]
  /\ heap[heap[clone.id].vals[1].id].vals = <<Null>>
  /\ heap[heap[clone.id].vals[2].id].vals = <<Null>>

SelfReferencing ==
  /\ IsPlainObject(value)
  /\ ~IsExtractableFile(value)
  /\ heap[value.id].vals = <<value>>

\* C2: for a mapping o with o.b = o, the call returns a clone c with c.b = c
\* and an empty index.
C2_CloneIsSelfReferencing ==
  (Done /\ SelfReferencing) =>
    /\ IsRef(clone)
    /\ clone # value
    /\ heap[clone.id].vals = <<clone>>
    /\ files = <<>>

\* C3: the call never raises an error.
C3_NeverThrows == ~Threw

\* C4: no extractable value is reachable from the returned clone.
C4_NoFileInClone ==
  Done => \A v \in ValuesFrom(heap, clone) : ~IsExtractableFile(v)

\* C5 as claimed: with an empty prefix, every recorded path, split on "." and
\* walked against the input, resolves to the leaf it is recorded under.
C5_PathsResolve == (path = <<>>) => AllPathsResolve

\* C5 as amended: the same, for inputs whose plain objects have only keys that
\* are not empty and hold no ".".
C5_PathsResolvePlainKeys == (path = <<>> /\ PlainKeys) => AllPathsResolve

C5_Witness ==
  /\ Done
  /\ path = <<>>
  /\ PlainKeys
  /\ \E k \in 1..Len(files) : \E j \in 1..Len(files[k].paths) :
       Len(Split(files[k].paths[j])) >= 2

C7_IndexKeyedByIdentityInOrder ==
  Done =>
    LET occ == Occurrences(value, path, {}, 1)
        First(file) == CHOOSE n \in 1..Len(occ) :
                         occ[n].key = file /\ \A m \in 1..(n - 1) : occ[m].key # file
    IN /\ \A n \in 1..Len(occ) : \E k \in 1..Len(files) : files[k].key = occ[n].key
       /\ \A k \in 1..Len(files) :
            LET mine == SelectSeq(occ, LAMBDA o : o.key = files[k].key) IN
            /\ mine # <<>>
            /\ files[k].paths = [n \in 1..Len(mine) |-> mine[n].path]
       /\ \A k, m \in 1..Len(files) :
            k < m => files[k].key # files[m].key
                     /\ First(files[k].key) < First(files[m].key)

\* file0, file1, file0: two entries, the first with two paths.
C7_Witness ==
  /\ Done
  /\ Len(files) = 2
  /\ files[1].key = FileVal(0)
  /\ files[2].key = FileVal(1)
  /\ Len(files[1].paths) = 2
  /\ Len(Occurrences(value, path, {}, 1)) = 3
  /\ Occurrences(value, path, {}, 1)[2].key = FileVal(1)

\* C8: no step of the call changes the input: the root, and every array,
\* plain object and FileList of the input keep their identity and content.
C8_InputUnchanged ==
  [][value' = value /\ \A c \in InputIds : heap'[c] = heap[c]]_vars

C8_Witness ==
  /\ Done
  /\ IsRef(clone)
  /\ clone # value
  /\ files # <<>>
  /\ ~Acyclic

\* Neither extractable nor an array, plain object or FileList.
Opaque(v) == ~IsExtractableFile(v) /\ ~IsContainer(v)

\* C9: a value that is neither extractable nor an array, plain object or
\* FileList is returned as it is, with an empty index, and the clone of an
\* array or plain object holds it as it is where the input holds it.
C9_OpaqueValuesAliased ==
  Done =>
    /\ Opaque(value) => clone = value /\ files = <<>>
    /\ (~IsExtractableFile(value) /\ (IsArray(value) \/ IsPlainObject(value))) =>
         /\ IsRef(clone)
         /\ \A k \in 1..Len(heap[value.id].vals) :
              Opaque(heap[value.id].vals[k]) =>
                heap[clone.id].vals[k] = heap[value.id].vals[k]

\* A class instance that the predicate does not hold of, inside an object.
C9_Witness ==
  /\ Done
  /\ pred = {}
  /\ IsPlainObject(value)
  /\ heap[value.id].vals = <<FileVal(0), Null>>
  /\ heap[clone.id].vals = <<FileVal(0), Null>>

Depth == Len(stack) + (IF mode = "call" THEN 1 ELSE 0)
InArrayOrObject(frame) == heap[frame.value.id].kind \in {"Array", "Object"}
Plus(frame) == [def |-> TRUE, has |-> frame.recursed.has \cup {frame.value.id}]

C10_Frames ==
  /\ stack # <<>> => stack[1].recursed = NewSet
  /\ \A k \in 2..Len(stack) :
       InArrayOrObject(stack[k - 1]) => stack[k].recursed = Plus(stack[k - 1])
  /\ (mode = "call" /\ stack # <<>> /\ InArrayOrObject(Top)) => arg.recursed = Plus(Top)
  /\ \A j, k \in 1..Len(stack) :
       (j < k /\ InArrayOrObject(stack[j]) /\ InArrayOrObject(stack[k])) =>
         stack[j].value # stack[k].value
  /\ NoFileListInput => ~Threw /\ Depth <= Cardinality(InputContainers) + 1

\* C10: every call into an entry of an array or plain object gets the
\* caller's set plus the caller's container, no array or plain object is
\* twice on the stack, and on a graph of arrays and plain objects the depth
\* stays within the number of containers plus one and the call returns.
C10_TraversalTerminates ==
  /\ []C10_Frames
  /\ NoFileListInput => <>Done

\* A cycle through two containers, broken at the third call.
C10_Witness ==
  /\ NoFileListInput
  /\ ~Acyclic
  /\ Depth = 3
  /\ mode = "call"
  /\ arg.value = Ref(1)
  /\ Cardinality(InputContainers) = 2

====
